---- MODULE Spec2Model ----
(***************************************************************************)
(* Model of the rolling kline cache of md_feed (src/md_feed/cache.py), of   *)
(* the references to its frames that get() hands out, and of the polling   *)
(* feed that drives it (src/md_feed/feed.py).                              *)
(*                                                                         *)
(* A DataFrame is modelled as a sequence of rows; a row is a record        *)
(* [ts, val]: ts is the row's index label (the candle's timestamp, in      *)
(* whole days), val stands for its column values (Open, High, Low, Close,  *)
(* Volume taken together).  Time-zone handling is not modelled: every      *)
(* timestamp and the clock live in one convention.                         *)
(***************************************************************************)
EXTENDS Integers, Sequences, FiniteSets, TLC

\* Bounds of the model.
MaxTs == 2          \* timestamps are 0..MaxTs
MaxNow == 2         \* the clock runs over 0..MaxNow
MaxPeriod == 1      \* KlineCache._max_period, scaled down to the model's days
MaxBatchLen == 3    \* longest fetched batch

Tickers == {"A", "B"}
\* Column values are only ever copied, never inspected: two distinguishable
\* ones tell an overwritten row from the row it replaced.
Values == {"v0", "v1"}
Record == [ts : 0..MaxTs, val : Values]

SeqsUpTo(S, n) == UNION {[1..k -> S] : k \in 0..n}
Ascending(df) == \A k \in 1..(Len(df) - 1) : df[k].ts < df[k + 1].ts

\* the timestamps of T in ascending order
RECURSIVE InOrder(_)
InOrder(T) ==
    IF T = {} THEN <<>>
    ELSE LET first == CHOOSE x \in T : \A y \in T : x <= y
         IN  <<first>> \o InOrder(T \ {first})

\* What the data source promises: rows ascending by timestamp, no duplicates.
SourceBatches ==
    UNION {{[k \in 1..Cardinality(T) |-> [ts |-> InOrder(T)[k], val |-> v[k]]] :
               v \in [1..Cardinality(T) -> Values]} :
           T \in {U \in SUBSET (0..MaxTs) : Cardinality(U) <= MaxBatchLen}}
\* What update() accepts: SourceBatches, and every batch of one or two rows in
\* any order, duplicate timestamps included.
Batches == {b : b \in SourceBatches \cup SeqsUpTo(Record, 2)}
\* The data source's batches for one symbol when every symbol trades at a
\* price of its own.
Quote(ticker) == IF ticker = "A" THEN "v0" ELSE "v1"
QuotedBatches(ticker) ==
    {b \in SourceBatches : \A k \in 1..Len(b) : b[k].val = Quote(ticker)}

\* The feed (src/md_feed/feed.py)
PollInterval == 1   \* MDFeed._poll_interval, in the clock's unit

\* MDFeed._tickers, in the order the loops visit them
TickerList == <<"A", "B">>

\* time.time() when the clock reads t: seconds since 1970, a number far larger
\* than the poll interval
Epoch == PollInterval + 1
time(t) == Epoch + t

\* what yf.Ticker(ticker).history(...) can return (it can also raise): no
\* candle, or candles at the oldest and the newest timestamp
Fetched(ticker) ==
    {b \in QuotedBatches(ticker) : \A k \in 1..Len(b) : b[k].ts \in {0, MaxTs}}

NoEvent == [op |-> "none", ticker |-> "A", fetch |-> "none", n |-> 0,
            rec |-> [ts |-> 0, val |-> "v0"], ret |-> FALSE, calls |-> 0,
            halted |-> 0]

VARIABLES
    data,   \* KlineCache._data: dict ticker -> DataFrame
    now,    \* the wall clock read by pd.Timestamp.now()
    last,   \* the most recent call on the cache: its arguments' shape and its result
    ref,    \* the DataFrame object a consumer got from get() and still holds
    handler,    \* MDFeed._handler is set
    running,    \* MDFeed._running
    pc,         \* where the thread that drives the feed is
    i,          \* position of the `for ticker in self._tickers` loop it is in
    last_poll,  \* run()'s local last_poll
    loop_now,   \* run()'s local now, read at the top of the iteration
    ev,         \* what the feed's most recent step did
    stopped,    \* stop() has been called
    result,     \* what MDFeedFacade.initialize() returned last
    loads       \* what the fetches of the facade's current initialize() returned

feedVars == <<handler, running, pc, i, last_poll, loop_now, ev, stopped>>
facadeVars == <<result, loads>>
vars == <<data, now, last, ref, handler, running, pc, i, last_poll, loop_now, ev, stopped,
          result, loads>>

Idle == [op |-> "none", ticker |-> "A", n |-> 0, primed |-> FALSE, ret |-> FALSE]

\* no initialize() of the facade has returned
NoResult == <<>>

\* loads.before: the tickers in _data when initialize() was called;
\* loads.n[t]: the length of the batch fetched for t, -1 before the fetch
NoLoads == [before |-> {}, n |-> [t \in Tickers |-> -1]]

\* ref.live: the object ref is the very object _data[ref.ticker] refers to
NoRef == [has |-> FALSE, ticker |-> "A", df |-> <<>>, live |-> FALSE]

----
\* pandas operations used by the cache

\* idx in df.index
HasIdx(df, idx) == \E k \in 1..Len(df) : df[k].ts = idx

\* df.loc[rec.ts] = rec : assigns every row carrying that label, in place
SetLoc(df, rec) == [k \in 1..Len(df) |-> IF df[k].ts = rec.ts THEN rec ELSE df[k]]

\* pd.concat([df, rec])
Concat(df, rec) == Append(df, rec)

Monotonic(df) == \A k \in 1..(Len(df) - 1) : df[k].ts <= df[k + 1].ts
InsertAt(s, k, r) == SubSeq(s, 1, k) \o <<r>> \o SubSeq(s, k + 1, Len(s))

\* every arrangement of df's rows that is ascending by timestamp
RECURSIVE Orderings(_)
Orderings(df) ==
    IF df = <<>> THEN {<<>>}
    ELSE UNION {{InsertAt(s, k, Head(df)) :
                    k \in {j \in 0..Len(s) : Monotonic(InsertAt(s, j, Head(df)))}} :
                s \in Orderings(Tail(df))}

\* df.sort_index(): an index that is already ascending is returned as it is;
\* otherwise the rows are sorted with the default kind "quicksort", which is
\* not stable, so rows with equal timestamps may come out in any order.
sort_index(df) == IF Monotonic(df) THEN {df} ELSE Orderings(df)

----
\* KlineCache

\* variant of evict_old: nothing is ever dropped
evict_old_keep_all(df, t) == df

\* variant of evict_old: the row exactly at the cutoff is dropped as well
evict_old_strict(df, t) ==
    IF df = <<>> THEN df
    ELSE SelectSeq(df, LAMBDA r : r.ts > t - MaxPeriod)

\* the rows _evict_old keeps: df[df.index >= cutoff]
evict_old(df, t) ==
    IF df = <<>> THEN df
    ELSE SelectSeq(df, LAMBDA r : r.ts >= t - MaxPeriod)

\* replace if exists, else append
Upsert(existing, candle) ==
    IF HasIdx(existing, candle.ts) THEN SetLoc(existing, candle)
    ELSE Concat(existing, candle)

\* the part of Upsert that writes into the object itself
Upsert_in_place(existing, candle) ==
    IF HasIdx(existing, candle.ts) THEN SetLoc(existing, candle) ELSE existing

\* variant of Merge: only the open candle is applied
Merge_open_only(existing, new_candles) ==
    Upsert(existing, new_candles[Len(new_candles)])

\* variant of Merge: every record of the batch is applied, oldest first
RECURSIVE Merge_whole_batch(_, _)
Merge_whole_batch(existing, new_candles) ==
    IF new_candles = <<>> THEN existing
    ELSE Merge_whole_batch(Upsert(existing, Head(new_candles)), Tail(new_candles))

\* the n_candles >= 2 and n_candles == 1 branches of update
Merge(existing, new_candles) ==
    LET n_candles == Len(new_candles) IN
    IF n_candles >= 2
    THEN Upsert(Upsert(existing, new_candles[n_candles - 1]), new_candles[n_candles])
    ELSE Upsert(existing, new_candles[n_candles])

\* variant of Store: one frame shared by every ticker of the dict
Store_shared(d, ticker, df) == [t \in DOMAIN d \cup {ticker} |-> df]

\* self._data[ticker] = df
Store(d, ticker, df) ==
    [t \in DOMAIN d \cup {ticker} |-> IF t = ticker THEN df ELSE d[t]]

\* variant of update: the flag reports whether the stored rows changed
update_detecting(d, ticker, new_candles, t) ==
    IF new_candles = <<>>
    THEN {[data |-> d, ret |-> FALSE]}
    ELSE IF ticker \notin DOMAIN d
    THEN {[data |-> Store(d, ticker, evict_old(new_candles, t)), ret |-> TRUE]}
    ELSE {[data |-> Store(d, ticker, evict_old(s, t)),
           ret |-> evict_old(s, t) # d[ticker]] :
             s \in sort_index(Merge(d[ticker], new_candles))}

\* variant of update: an empty batch still runs the eviction
update_evict_on_empty(d, ticker, new_candles, t) ==
    IF new_candles = <<>>
    THEN {[data |-> IF ticker \in DOMAIN d
                    THEN Store(d, ticker, evict_old(d[ticker], t)) ELSE d,
           ret |-> FALSE]}
    ELSE IF ticker \notin DOMAIN d
    THEN {[data |-> Store(d, ticker, evict_old(new_candles, t)), ret |-> TRUE]}
    ELSE {[data |-> Store(d, ticker, evict_old(s, t)), ret |-> TRUE] :
             s \in sort_index(Merge(d[ticker], new_candles))}

\* variant of update: a ticker whose history was emptied is loaded afresh
update_reloading_empty(d, ticker, new_candles, t) ==
    IF new_candles = <<>>
    THEN {[data |-> d, ret |-> FALSE]}
    ELSE IF ticker \notin DOMAIN d \/ d[ticker] = <<>>
    THEN {[data |-> Store(d, ticker, evict_old(new_candles, t)), ret |-> TRUE]}
    ELSE {[data |-> Store(d, ticker, evict_old(s, t)), ret |-> TRUE] :
             s \in sort_index(Merge(d[ticker], new_candles))}

\* update(ticker, new_candles) called on cache contents d at time t: the set
\* of possible outcomes [data |-> new contents, ret |-> returned flag]
update(d, ticker, new_candles, t) ==
    IF new_candles = <<>>
    THEN {[data |-> d, ret |-> FALSE]}
    ELSE IF ticker \notin DOMAIN d
    THEN {[data |-> Store(d, ticker, evict_old(new_candles, t)), ret |-> TRUE]}
    ELSE {[data |-> Store(d, ticker, evict_old(s, t)), ret |-> TRUE] :
             s \in sort_index(Merge(d[ticker], new_candles))}

\* What update leaves in the object that was _data[ticker] when it was called
\* (existing): every .loc assignment made before the first pd.concat rebinds
\* `existing` to a new object writes into that object.
InPlace(existing, new_candles) ==
    LET n_candles == Len(new_candles)
        open_candle == new_candles[n_candles]
    IN  IF n_candles >= 2
        THEN LET closed_candle == new_candles[n_candles - 1]
             IN  IF HasIdx(existing, closed_candle.ts)
                 THEN Upsert_in_place(SetLoc(existing, closed_candle), open_candle)
                 ELSE existing
        ELSE Upsert_in_place(existing, open_candle)

\* get(ticker): None for an unknown ticker
get(d, ticker) ==
    IF ticker \in DOMAIN d THEN [present |-> TRUE, df |-> d[ticker]]
    ELSE [present |-> FALSE, df |-> <<>>]

----
\* State machine

Init ==
    /\ data = <<>>
    /\ now = 0
    /\ last = Idle
    /\ ref = NoRef
    /\ handler = FALSE
    /\ running = FALSE
    /\ pc = "idle"
    /\ i = 1
    /\ last_poll = 0
    /\ loop_now = 0
    /\ ev = NoEvent
    /\ stopped = FALSE
    /\ result = NoResult
    /\ loads = NoLoads

\* the object ref after update(ticker, new_candles): update writes into the
\* object it found in _data[ticker] and then binds _data[ticker] to a new one
\* (sort_index and the boolean mask of _evict_old both return new objects)
RefAfterUpdate(ticker, new_candles) ==
    IF ref.has /\ ref.live /\ ref.ticker = ticker /\ new_candles # <<>>
    THEN [ref EXCEPT !.df = InPlace(ref.df, new_candles), !.live = FALSE]
    ELSE ref

Update(ticker, new_candles) ==
    \E o \in update(data, ticker, new_candles, now) :
        /\ data' = o.data
        /\ last' = [op |-> "update", ticker |-> ticker, n |-> Len(new_candles),
                    primed |-> ticker \in DOMAIN data, ret |-> o.ret]
        /\ ref' = RefAfterUpdate(ticker, new_candles)
        /\ UNCHANGED now
        /\ UNCHANGED feedVars
        /\ UNCHANGED facadeVars

\* time passes between calls
Tick ==
    /\ now < MaxNow
    /\ now' = now + 1
    /\ last' = Idle
    /\ UNCHANGED <<data, ref>>
    /\ UNCHANGED feedVars
    /\ UNCHANGED facadeVars

\* a consumer calls get(ticker) and keeps what it returns: the stored object
\* itself, or None
Get(ticker) ==
    /\ ref' = IF get(data, ticker).present
               THEN [has |-> TRUE, ticker |-> ticker, df |-> get(data, ticker).df,
                     live |-> TRUE]
               ELSE NoRef
    /\ last' = [Idle EXCEPT !.op = "get", !.ticker = ticker]
    /\ UNCHANGED <<data, now>>
    /\ UNCHANGED feedVars
    /\ UNCHANGED facadeVars

\* the consumer assigns a cell of the frame it holds (df.iloc[k] = v)
Mutate ==
    /\ ref.has
    /\ \E k \in 1..Len(ref.df) : \E v \in Values \ {ref.df[k].val} :
          /\ ref' = [ref EXCEPT !.df[k].val = v]
          /\ data' = IF ref.live
                     THEN [data EXCEPT ![ref.ticker][k].val = v]
                     ELSE data
    /\ last' = [Idle EXCEPT !.op = "mutate", !.ticker = ref.ticker]
    /\ UNCHANGED now
    /\ UNCHANGED feedVars
    /\ UNCHANGED facadeVars

\* one symbol fed arbitrary batches
Next == (\E b \in Batches : Update("A", b)) \/ Tick
Spec == Init /\ [][Next]_vars

\* two symbols fed by the data source, each at its own price
NextPair == (\E t \in Tickers : \E b \in QuotedBatches(t) : Update(t, b)) \/ Tick
SpecPair == Init /\ [][NextPair]_vars

\* one symbol fed by the data source, and a consumer of get()
NextConsumer ==
    \/ \E b \in SourceBatches : Update("A", b)
    \/ Get("A")
    \/ Mutate
    \/ Tick
SpecConsumer == Init /\ [][NextConsumer]_vars

----
\* The feed: MDFeed driven as main.py drives it (set_handler, initialize,
\* run), with stop() callable at any time from another context or from the
\* callback.

\* the record of a fetch that returned new_candles and of what followed it
Event(op, ticker, new_candles, ret, calls) ==
    [op |-> op, ticker |-> ticker, fetch |-> "ok", n |-> Len(new_candles),
     rec |-> IF new_candles = <<>> THEN NoEvent.rec
             ELSE new_candles[Len(new_candles)],
     ret |-> ret, calls |-> calls, halted |-> 0]

\* the record of a fetch that raised
Failure(op, ticker) ==
    [NoEvent EXCEPT !.op = op, !.ticker = ticker, !.fetch = "error"]

UpdateRecord(ticker, new_candles, ret) ==
    [op |-> "update", ticker |-> ticker, n |-> Len(new_candles),
     primed |-> ticker \in DOMAIN data, ret |-> ret]

\* the reference on_kline_data receives: cache.get(ticker) itself
Passed(ticker, full_df) ==
    [has |-> TRUE, ticker |-> ticker, df |-> full_df.df, live |-> TRUE]

SetHandler ==
    /\ pc = "idle"
    /\ handler' = TRUE
    /\ UNCHANGED <<data, now, last, ref, running, pc, i, last_poll, loop_now, ev, stopped>>
    /\ UNCHANGED facadeVars

\* initialize() is entered
InitializeBegin ==
    /\ pc = "idle"
    /\ pc' = "initialize"
    /\ i' = 1
    /\ UNCHANGED <<data, now, last, ref, handler, running, last_poll, loop_now, ev, stopped>>

\* MDFeed.initialize() is called
InitializeStart ==
    /\ InitializeBegin
    /\ UNCHANGED facadeVars

\* variant of InitializeCalls: initialize notifies as a poll does
InitializeCalls_notifying(ret, h) ==
    IF ret /\ h THEN 1 ELSE 0

\* how often initialize calls the handler after update returned ret
InitializeCalls(ret, h) ==
    0

\* one pass of initialize()'s loop whose fetch returns
InitializePass ==
    /\ pc = "initialize"
    /\ LET ticker == TickerList[i]
       IN  \E df \in Fetched(ticker) : \E o \in update(data, ticker, df, now) :
             /\ data' = o.data
             /\ last' = UpdateRecord(ticker, df, o.ret)
             /\ ref' = RefAfterUpdate(ticker, df)
             /\ ev' = Event("initialize", ticker, df, o.ret,
                            InitializeCalls(o.ret, handler))
    /\ i' = IF i = Len(TickerList) THEN 1 ELSE i + 1
    /\ pc' = IF i = Len(TickerList) THEN "idle" ELSE pc
    /\ UNCHANGED <<now, handler, running, last_poll, loop_now, stopped>>

\* such a pass of MDFeed.initialize() called directly
InitializeStep ==
    /\ InitializePass
    /\ UNCHANGED facadeVars

\* one pass of initialize()'s loop whose fetch raises: nothing catches it
InitializeFails ==
    /\ pc = "initialize"
    /\ ev' = Failure("initialize", TickerList[i])
    /\ pc' = "raised"
    /\ UNCHANGED <<data, now, last, ref, handler, running, i, last_poll, loop_now, stopped>>
    /\ UNCHANGED facadeVars

\* variant of RunStart: last_poll is what the previous run() left
RunStart_keeping ==
    /\ pc \in {"idle", "returned"}
    /\ running' = TRUE
    /\ pc' = "loop"
    /\ UNCHANGED <<data, now, last, ref, handler, i, last_poll, loop_now, ev, stopped>>
    /\ UNCHANGED facadeVars

\* run() is called, for the first time or after an earlier run() returned
RunStart ==
    /\ pc \in {"idle", "returned"}
    /\ running' = TRUE
    /\ last_poll' = 0
    /\ pc' = "loop"
    /\ UNCHANGED <<data, now, last, ref, handler, i, loop_now, ev, stopped>>
    /\ UNCHANGED facadeVars

\* variant of LoopGuard: the loop does not look at the flag
LoopGuard_ignoring(r) ==
    TRUE

\* while self._running
LoopGuard(r) ==
    r

RunReturn ==
    /\ pc = "loop"
    /\ ~LoopGuard(running)
    /\ pc' = "returned"
    /\ UNCHANGED <<data, now, last, ref, handler, running, i, last_poll, loop_now, ev, stopped>>
    /\ UNCHANGED facadeVars

\* variant of Due: every iteration polls
Due_always(t, lp) ==
    TRUE

\* if now - last_poll >= self._poll_interval
Due(t, lp) ==
    t - lp >= PollInterval

\* an iteration that polls: up to the call of _poll_all
LoopPoll ==
    /\ pc = "loop"
    /\ LoopGuard(running)
    /\ Due(time(now), last_poll)
    /\ loop_now' = time(now)
    /\ pc' = "poll"
    /\ i' = 1
    /\ UNCHANGED <<data, now, last, ref, handler, running, last_poll, ev, stopped>>
    /\ UNCHANGED facadeVars

\* an iteration that does not poll
LoopSkip ==
    /\ pc = "loop"
    /\ LoopGuard(running)
    /\ ~Due(time(now), last_poll)
    /\ ev' = [NoEvent EXCEPT !.op = "skip"]
    /\ UNCHANGED <<data, now, last, ref, handler, running, pc, i, last_poll, loop_now, stopped>>
    /\ UNCHANGED facadeVars

\* variant of Calls: the handler is called after every update
Calls_always(ret, h, full_df) ==
    IF h /\ full_df.present THEN 1 ELSE 0

\* variant of Calls: the handler is not called after a change
Calls_never(ret, h, full_df) ==
    0

\* how often _poll_all calls the handler for a ticker whose update returned
\* ret: `if has_new_closed and self._handler`, `if full_df is not None`
Calls(ret, h, full_df) ==
    IF ret /\ h /\ full_df.present THEN 1 ELSE 0

\* variant of MorePasses: the loop over the tickers ends when the flag is cleared
MorePasses_while_running(k, r) ==
    k <= Len(TickerList) /\ r

\* `for ticker in self._tickers` has a k-th pass; the flag r is not looked at
MorePasses(k, r) ==
    k <= Len(TickerList)

\* variant of Visit: the tickers are visited last to first
Visit_backwards(k) ==
    TickerList[Len(TickerList) + 1 - k]

\* the ticker of the k-th pass of `for ticker in self._tickers`
Visit(k) ==
    TickerList[k]

\* ev.halted after a pass whose callback did (stops) or did not call stop():
\* the pass of the current _poll_all whose callback called stop() first, 0 if
\* none did
HaltedBy(stops) ==
    IF i > 1 /\ ev.op = "poll" /\ ev.halted > 0 THEN ev.halted
    ELSE IF stops THEN i
    ELSE 0

\* one pass of _poll_all's loop whose fetch returns: update, then the
\* callback, which may call stop()
PollStep ==
    /\ pc = "poll"
    /\ MorePasses(i, running)
    /\ LET ticker == Visit(i)
       IN  \E df \in Fetched(ticker) : \E o \in update(data, ticker, df, now) :
             LET full_df == get(o.data, ticker)
                 calls == Calls(o.ret, handler, full_df)
             IN  /\ data' = o.data
                 /\ last' = UpdateRecord(ticker, df, o.ret)
                 /\ ref' = IF calls > 0 THEN Passed(ticker, full_df)
                           ELSE RefAfterUpdate(ticker, df)
                 /\ \E stops \in IF calls > 0 THEN BOOLEAN ELSE {FALSE} :
                       /\ running' = (running /\ ~stops)
                       /\ stopped' = (stopped \/ stops)
                       /\ ev' = [Event("poll", ticker, df, o.ret, calls)
                                    EXCEPT !.halted = HaltedBy(stops)]
    /\ i' = i + 1
    /\ UNCHANGED <<now, handler, pc, last_poll, loop_now>>
    /\ UNCHANGED facadeVars

\* one pass of _poll_all's loop whose fetch raises: neither _poll_all nor
\* run() catches it
PollFails ==
    /\ pc = "poll"
    /\ MorePasses(i, running)
    /\ ev' = Failure("poll", Visit(i))
    /\ pc' = "raised"
    /\ UNCHANGED <<data, now, last, ref, handler, running, i, last_poll, loop_now, stopped>>
    /\ UNCHANGED facadeVars

\* _poll_all returns; last_poll = now; time.sleep(0.1)
PollEnd ==
    /\ pc = "poll"
    /\ ~MorePasses(i, running)
    /\ last_poll' = loop_now
    /\ loop_now' = 0
    /\ i' = 1
    /\ pc' = "loop"
    /\ UNCHANGED <<data, now, last, ref, handler, running, ev, stopped>>
    /\ UNCHANGED facadeVars

\* stop(), from another context
Stop ==
    /\ running' = FALSE
    /\ stopped' = TRUE
    /\ UNCHANGED <<data, now, last, ref, handler, pc, i, last_poll, loop_now, ev>>
    /\ UNCHANGED facadeVars

\* the steps of the thread inside run()
RunThread ==
    RunReturn \/ LoopPoll \/ LoopSkip \/ PollStep \/ PollFails \/ PollEnd

NextFeed ==
    \/ SetHandler
    \/ InitializeStart
    \/ InitializeStep
    \/ InitializeFails
    \/ RunStart
    \/ RunReturn
    \/ LoopPoll
    \/ LoopSkip
    \/ PollStep
    \/ PollFails
    \/ PollEnd
    \/ Stop
    \/ Tick
SpecFeed == Init /\ [][NextFeed]_vars

\* the thread inside run() keeps taking steps: every fetch and every callback
\* returns or raises
SpecFeedFair == SpecFeed /\ WF_vars(RunThread)

----
\* The facade (src/md_feed/facade.py): initialize() runs the feed's
\* initialize() and then counts what the cache holds.

\* variant of initialize_result: only the tickers the cache knows are reported
initialize_result_loaded_only(d) ==
    [t \in {TickerList[k] : k \in 1..Len(TickerList)} \cap DOMAIN d |->
        Len(get(d, t).df)]

\* result[ticker] = len(df) if df is not None else 0, for ticker in _tickers
initialize_result(d) ==
    [t \in {TickerList[k] : k \in 1..Len(TickerList)} |->
        IF get(d, t).present THEN Len(get(d, t).df) ELSE 0]

\* MDFeedFacade.initialize() is called
FacadeInitializeStart ==
    /\ InitializeBegin
    /\ loads' = [NoLoads EXCEPT !.before = DOMAIN data]
    /\ result' = NoResult

\* a pass of the feed's loop under the facade; after the last one the facade
\* builds its result and returns it
FacadeInitializeStep ==
    /\ InitializePass
    /\ loads' = [loads EXCEPT !.n[TickerList[i]] = ev'.n]
    /\ result' = IF i = Len(TickerList) THEN initialize_result(data') ELSE result

NextFacade ==
    \/ SetHandler
    \/ FacadeInitializeStart
    \/ FacadeInitializeStep
    \/ InitializeFails
    \/ Tick
SpecFacade == Init /\ [][NextFacade]_vars

----
\* Properties of the cache

Rows(df) == {df[k] : k \in 1..Len(df)}
Count(df, r) == Cardinality({k \in 1..Len(df) : df[k] = r})
Cutoff == now - MaxPeriod
InWindow(r) == r.ts >= Cutoff
JustUpdated == last.op = "update"
FirstLoad == JustUpdated /\ ~last.primed /\ last.n > 0
PrimedUpdate == JustUpdated /\ last.primed /\ last.n > 0

\* C1: a first load (symbol without history, non-empty batch) returns false,
\* and afterwards get(S) holds the rows of the batch that lie within the
\* retention window.
C1_FirstLoadReturnsFalse ==
    /\ FirstLoad => last.ret = FALSE
    /\ \A t \in Tickers \ DOMAIN data : \A b \in Batches \ {<<>>} :
         \A o \in update(data, t, b, now) :
            /\ get(o.data, t).present
            /\ Rows(get(o.data, t).df) = {r \in Rows(b) : InWindow(r)}

C3_SameBatchReturnsFalse ==
    FirstLoad =>
        \A b \in Batches : (Len(b) = last.n /\ evict_old(b, now) = data[last.ticker]) =>
            \A o \in update(data, last.ticker, b, now) : o.ret = FALSE

\* C4: update with an empty batch returns false and leaves the stored history
\* of every symbol as it was; a symbol never loaded stays absent.
C4_EmptyUpdateIsNoOp ==
    [][(last'.op = "update" /\ last'.n = 0) =>
          /\ last'.ret = FALSE
          /\ data' = data
          /\ \A t \in Tickers : get(data', t) = get(data, t)]_vars

C4_Witness ==
    /\ JustUpdated /\ last.n = 0 /\ last.ret = FALSE
    /\ DOMAIN data = Tickers
    /\ \E r \in Rows(data[last.ticker]) : ~InWindow(r)

\* C5: every symbol's stored history is sorted strictly ascending by timestamp,
\* without a duplicate timestamp, after any sequence of update calls.
C5_SortedUnique == \A t \in DOMAIN data : Ascending(data[t])

\* C6: at the end of every update call for symbol S, calls with an empty batch
\* included, every row of S's stored history has timestamp >= now - retention.
C6_WindowAfterEveryUpdate ==
    (JustUpdated /\ last.ticker \in DOMAIN data) =>
        \A r \in Rows(data[last.ticker]) : InWindow(r)

\* C6 as amended: at the end of every update call with a non-empty batch,
\* every row of S's stored history has timestamp >= now - retention.
C6_WindowAfterNonEmptyUpdate ==
    (JustUpdated /\ last.n > 0) =>
        \A r \in Rows(data[last.ticker]) : InWindow(r)

\* a two-row first load of which the eviction dropped one row
C6_Witness ==
    /\ FirstLoad /\ last.n = 2
    /\ Len(data[last.ticker]) = 1

\* C7: the eviction run by a non-empty update is a pure filter: of the rows
\* held before it (the batch on a first load, the merged history otherwise) it
\* removes exactly those older than now - retention and keeps every other row,
\* values unchanged.
C7_EvictionIsFilter ==
    \A t \in DOMAIN data \cup {last.ticker} : \A b \in Batches \ {<<>>} :
        LET held == IF t \in DOMAIN data THEN Merge(data[t], b) ELSE b
        IN  \A o \in update(data, t, b, now) :
                /\ Rows(o.data[t]) = {r \in Rows(held) : InWindow(r)}
                /\ \A r \in Rows(o.data[t]) : Count(o.data[t], r) = Count(held, r)

\* retention window and ages {old, in, in}: exactly the two in-window rows stay
C7_Witness ==
    /\ FirstLoad /\ last.n = 3
    /\ Len(data[last.ticker]) = 2
    /\ \A r \in Rows(data[last.ticker]) : InWindow(r)

\* C8: with stored history [t1, t2], update(S, [t2', t3]) (t2' on t2's
\* timestamp, t3 later) returns true and get(S) is then exactly [t1, t2', t3].
C8_CloseDetection ==
    \A t \in DOMAIN data :
        (Len(data[t]) = 2 /\ Ascending(data[t])) =>
            \A b \in Batches :
                (Len(b) = 2 /\ b[1].ts = data[t][2].ts /\ b[2].ts > b[1].ts) =>
                    \A o \in update(data, t, b, now) :
                        /\ o.ret = TRUE
                        /\ get(o.data, t).df = <<data[t][1], b[1], b[2]>>

\* C8 as amended: the same, provided t1 is still within the retention window
\* at the time of the call.
C8_CloseDetectionInWindow ==
    \A t \in DOMAIN data :
        (Len(data[t]) = 2 /\ Ascending(data[t]) /\ InWindow(data[t][1])) =>
            \A b \in Batches :
                (Len(b) = 2 /\ b[1].ts = data[t][2].ts /\ b[2].ts > b[1].ts) =>
                    \A o \in update(data, t, b, now) :
                        /\ o.ret = TRUE
                        /\ get(o.data, t).df = <<data[t][1], b[1], b[2]>>

C8_Witness ==
    /\ PrimedUpdate /\ last.n = 2 /\ last.ret = TRUE
    /\ Len(data[last.ticker]) = 3
    /\ Ascending(data[last.ticker])
    /\ InWindow(data[last.ticker][1])

C10_Isolation ==
    [][last'.op = "update" =>
          \A t \in Tickers \ {last'.ticker} : get(data', t) = get(data, t)]_vars

C10_Witness ==
    /\ PrimedUpdate /\ last.n >= 2
    /\ DOMAIN data = Tickers
    /\ \E t \in Tickers \ {last.ticker} :
          /\ data[t] # <<>>
          /\ \E r \in Rows(data[t]) : ~InWindow(r)

\* the rows of df at timestamp idx
At(df, idx) == {k \in 1..Len(df) : df[k].ts = idx}

\* C22: for a symbol with a baseline, a non-empty update upserts exactly the
\* batch's last record and, when the batch has two or more, its second-to-last
\* (overwrite on an existing timestamp, insert otherwise); every other stored
\* record within the retention window is kept as it was and no earlier record
\* of the batch is inserted or applied.
C22_UpsertsLastTwoOnly ==
    \A t \in DOMAIN data : \A b \in Batches \ {<<>>} :
        LET n == Len(b)
            applied == {b[k] : k \in {n - 1, n} \cap (1..n)}
            touched == {r.ts : r \in applied}
        IN  \A o \in update(data, t, b, now) :
              /\ \A r \in Rows(o.data[t]) \cup {q \in Rows(data[t]) : InWindow(q)} :
                    r.ts \notin touched => Count(o.data[t], r) = Count(data[t], r)
              /\ \A r \in Rows(o.data[t]) :
                    r.ts \in touched =>
                        r = IF r.ts = b[n].ts THEN b[n] ELSE b[n - 1]
              /\ \A r \in applied :
                    InWindow(r) =>
                        Cardinality(At(o.data[t], r.ts)) =
                            IF HasIdx(data[t], r.ts)
                            THEN Cardinality(At(data[t], r.ts))
                            ELSE 1

\* a batch of three was applied to a baseline at a time when nothing is out
\* of the window, and two rows are held: its first record was not inserted
C22_Witness ==
    /\ PrimedUpdate /\ last.n = 3
    /\ now = 0
    /\ Len(data[last.ticker]) = 2

\* the records a post-baseline update of an empty history leaves, before
\* eviction: the batch's last record and, if on another timestamp, the one
\* before it
LastTwo(b) ==
    {b[k] : k \in {j \in {Len(b) - 1, Len(b)} \cap (1..Len(b)) :
                     j = Len(b) \/ b[j].ts # b[Len(b)].ts}}

\* C24: a symbol is primed once a non-empty batch has been stored for it and
\* stays primed: when eviction has removed all of its records, get returns an
\* empty history rather than absent, and the next non-empty update upserts
\* only the batch's last two records instead of storing the batch as a first
\* load does.
C24_PrimedForever ==
    /\ [][\A t \in DOMAIN data : t \in DOMAIN data']_vars
    /\ [](JustUpdated /\ last.n > 0 => last.ticker \in DOMAIN data)
    /\ [](\A t \in DOMAIN data :
            data[t] = <<>> =>
                /\ get(data, t) = [present |-> TRUE, df |-> <<>>]
                /\ \A b \in Batches \ {<<>>} : \A o \in update(data, t, b, now) :
                      /\ Rows(o.data[t]) = {r \in LastTwo(b) : InWindow(r)}
                      /\ Ascending(o.data[t]))

\* an update has left a primed symbol without any record
C24_Witness ==
    /\ PrimedUpdate
    /\ last.ticker \in DOMAIN data
    /\ data[last.ticker] = <<>>

----
\* Properties of the frames handed out

\* C11: a history h returned by get(S) is a snapshot: a later update call
\* leaves the contents of h as they were.
C11_GetIsSnapshot ==
    [][(last'.op = "update" /\ ref.has) => ref'.df = ref.df]_vars

\* C12: a consumer that mutates the history it received (from get, or as the
\* callback's argument, which is cache.get(ticker)) does not change what the
\* cache stores.
C12_ConsumerCannotCorrupt ==
    [][last'.op = "mutate" => data' = data]_vars

----
\* Properties of the feed

\* a pass of _poll_all's loop was completed by this step
Polled == pc = "poll" /\ i' = i + 1

\* a pass of initialize()'s loop was completed by this step
Initialized == pc = "initialize" /\ pc' # "raised" /\ (pc' # pc \/ i' # i)

\* time since the last poll, as run() computes it
Elapsed == time(now) - last_poll

\* C13: in a poll tick the callback is invoked for a symbol exactly when
\* update returned true for it and a callback is registered: once, with
\* cache.get(symbol) as it is after that update and the symbol; otherwise it
\* is not invoked.
C13_CallbackIffChanged ==
    [][Polled =>
          /\ last'.op = "update" /\ last'.ticker = TickerList[i]
          /\ ev'.ticker = TickerList[i]
          /\ ev'.calls = (IF last'.ret /\ handler THEN 1 ELSE 0)
          /\ ev'.calls = 1 =>
                ref' = [has |-> TRUE, ticker |-> TickerList[i],
                        df |-> data'[TickerList[i]], live |-> TRUE]
          /\ ev'.calls = 0 => (ref'.live => ref' = ref)]_vars

C13_Witness ==
    /\ ev.op = "poll" /\ ev.fetch = "ok"
    /\ ev.calls = 1
    /\ ev.ticker = "B"
    /\ ref.live /\ ref.ticker = "B" /\ ref.df # <<>>

\* C14: a run-loop iteration that starts when less than the poll period has
\* elapsed since the last poll fetches nothing, updates nothing and invokes
\* no callback.
C14_NoPollBeforePeriod ==
    [][(pc = "loop" /\ running /\ Elapsed < PollInterval) =>
          /\ pc' = "loop"
          /\ data' = data /\ ref' = ref
          /\ ev' = ev \/ ev'.op = "skip"]_vars

C14_Witness ==
    /\ pc = "loop" /\ running
    /\ Elapsed < PollInterval
    /\ ev.op = "skip"

\* a poll fetched, for a symbol with a baseline and with a callback
\* registered, a non-empty batch whose last record is new or differs from the
\* stored most recent record
Notifiable ==
    /\ Polled
    /\ handler
    /\ TickerList[i] \in DOMAIN data
    /\ ev'.n > 0
    /\ \/ data[TickerList[i]] = <<>>
       \/ data[TickerList[i]][Len(data[TickerList[i]])] # ev'.rec

\* C15 (as stated): after such a fetch the callback is invoked at least once
\* for the symbol with a history that contains the batch's last record.
C15_NotifiedWithRecord ==
    [][Notifiable => (ev'.calls >= 1 /\ ev'.rec \in Rows(ref'.df))]_vars

\* C15: after such a fetch the callback is invoked at least once for the
\* symbol; the history it receives contains the batch's last record provided
\* that record is not older than now - retention.
C15_NotifiedWithRecordInWindow ==
    [][Notifiable =>
          /\ ev'.calls >= 1
          /\ ref'.ticker = TickerList[i]
          /\ ev'.rec.ts >= now - MaxPeriod => ev'.rec \in Rows(ref'.df)]_vars

C15_Witness ==
    /\ ev.op = "poll" /\ ev.calls = 1 /\ ev.n > 0
    /\ last.op = "update" /\ last.primed
    /\ ref.live /\ ev.rec \in Rows(ref.df)
    /\ Len(ref.df) >= 2

\* C16: initialize() never invokes the callback: it feeds each tracked
\* symbol's batch to update and ignores the flag update returns.
C16_InitializeNeverNotifies ==
    [][Initialized =>
          /\ last'.op = "update" /\ last'.ticker = TickerList[i]
          /\ ev'.calls = 0
          /\ ref'.live => ref' = ref]_vars

C16_Witness ==
    /\ ev.op = "initialize" /\ ev.ticker = "B"
    /\ handler
    /\ last.op = "update" /\ last.ret
    /\ ev.calls = 0

\* C17: a fetch failure for one symbol during a poll tick is not fatal: the
\* tick goes on with the remaining symbols and the run loop keeps running.
C17_PollSurvivesFetchFailure ==
    (ev.op = "poll" /\ ev.fetch = "error") => pc \in {"poll", "loop"}

\* C18: a fetch failure for one symbol during initialize() does not abort the
\* initialization: the other symbols are still fetched and loaded.
C18_InitializeSurvivesFetchFailure ==
    (ev.op = "initialize" /\ ev.fetch = "error") => pc \in {"initialize", "idle"}

\* C19: once stop() has cleared the flag while run() is executing, the loop
\* starts no further poll tick when it next reaches its top, and run() is
\* left once the tick in progress is over.
C19_StopEndsRun ==
    /\ [][(pc = "loop" /\ ~running) => pc' \in {"loop", "returned"}]_vars
    /\ (pc \in {"loop", "poll"} /\ ~running) ~> (pc \in {"returned", "raised"})

C19_Witness ==
    /\ pc = "returned"
    /\ stopped
    /\ ev.op = "poll" /\ ev.calls = 1

\* C20: the stopped state is terminal: once stop() has been called, the
\* running flag is never true again.
C20_StoppedIsTerminal ==
    stopped => ~running

----
\* Properties of the facade

\* the facade's initialize() has returned and nothing was called since
Returned == pc = "idle" /\ result # NoResult

\* C21: the mapping initialize() returns on the facade has exactly one entry
\* per tracked symbol; its value is the number of records the cache holds for
\* the symbol after the load, and 0 for a symbol without earlier history
\* whose fetch yielded nothing.
C21_InitializeCounts ==
    Returned =>
        /\ DOMAIN result = Tickers
        /\ \A t \in Tickers :
              /\ t \in DOMAIN data => result[t] = Cardinality(DOMAIN data[t])
              /\ t \notin DOMAIN data => result[t] = 0
              /\ (loads.n[t] = 0 /\ t \notin loads.before) => result[t] = 0

C21_Witness ==
    /\ Returned
    /\ loads.n["A"] = 0 /\ "A" \notin loads.before
    /\ result["A"] = 0
    /\ loads.n["B"] = 2
    /\ result["B"] = 2

----
\* Properties of the order of a poll tick

\* the thread inside run() took this step out of a pass of _poll_all
PollThreadStep == pc = "poll" /\ (pc' # pc \/ i' # i)

\* C23: a poll tick processes the tracked symbols in list order, each once,
\* and the callback for a symbol is over before the next symbol is fetched: a
\* tick starts at the first symbol, each of its steps handles the next symbol
\* of the list, callback included, and the tick returns to the run loop only
\* after the last one (a fetch that raises ends it before that).
C23_TickInListOrder ==
    /\ [][(pc # "poll" /\ pc' = "poll") => i' = 1]_vars
    /\ [][PollThreadStep =>
            \/ /\ pc' = "poll"
               /\ i <= Len(TickerList) /\ i' = i + 1
               /\ ev'.op = "poll" /\ ev'.ticker = TickerList[i]
               /\ last'.op = "update" /\ last'.ticker = TickerList[i]
               /\ ev'.calls > 0 =>
                     /\ last'.ret
                     /\ ref' = [has |-> TRUE, ticker |-> TickerList[i],
                                df |-> data'[TickerList[i]], live |-> TRUE]
            \/ pc' = "loop" /\ i = Len(TickerList) + 1
            \/ pc' = "raised" /\ ev'.fetch = "error"]_vars

\* both symbols were handled and the tick is about to return
C23_Witness ==
    /\ pc = "poll" /\ i = Len(TickerList) + 1
    /\ ev.op = "poll" /\ ev.ticker = "B" /\ ev.calls = 1
    /\ ref.ticker = "B" /\ ref.live

\* C25: the first loop iteration of every run() call polls at once, however
\* recently initialize() or an earlier run() fetched: when run() enters its
\* loop the time since last_poll is at least the poll period, and an
\* iteration that finds it so starts a tick at the first symbol.
C25_FirstIterationPolls ==
    /\ [][(pc # "loop" /\ pc' = "loop" /\ pc # "poll") =>
            time(now') - last_poll' >= PollInterval]_vars
    /\ [][(pc = "loop" /\ running /\ Elapsed >= PollInterval
             /\ (pc' # pc \/ ev' # ev)) =>
            (pc' = "poll" /\ i' = 1 /\ loop_now' = time(now))]_vars

\* a second run() starts its first tick at the time the earlier run() polled
C25_Witness ==
    /\ pc = "poll" /\ i = 1
    /\ last_poll = 0
    /\ ev.op = "poll"
    /\ stopped
    /\ now = 0

\* C26: a stop() issued from within the callback for one symbol does not cut
\* the tick short: the next step of the tick still fetches the next symbol of
\* the list, applies the batch and notifies when update returned true, and
\* the tick returns to the run loop only after the last symbol.
C26_StopInCallbackFinishesTick ==
    /\ [][(PollThreadStep /\ i > 1 /\ ev.halted > 0) =>
            \/ /\ i <= Len(TickerList) /\ i' = i + 1 /\ pc' = "poll"
               /\ ev'.ticker = TickerList[i] /\ ev'.fetch = "ok"
               /\ last' = [op |-> "update", ticker |-> TickerList[i], n |-> ev'.n,
                           primed |-> TickerList[i] \in DOMAIN data,
                           ret |-> ev'.ret]
               /\ ev'.calls = (IF ev'.ret /\ handler THEN 1 ELSE 0)
            \/ pc' = "loop" /\ i = Len(TickerList) + 1
            \/ pc' = "raised" /\ ev'.fetch = "error"]_vars
    /\ [][(pc # "returned" /\ pc' = "returned") => (pc = "loop" /\ ~running)]_vars

\* run() returned after the callback for A called stop() and B was then
\* notified in the same tick
C26_Witness ==
    /\ pc = "returned"
    /\ ev.op = "poll" /\ ev.ticker = "B"
    /\ ev.halted = 1
    /\ ev.calls = 1
====
